---- MODULE Spec2Model ----
(***************************************************************************)
(* Model of the check-in kiosk of src/src/main.rs: the NFC poll thread,    *)
(* the submit-score handler on the UI event loop, the four retrying        *)
(* request functions and validate_inputs.                                  *)
(*                                                                         *)
(* Strings are sequences of chunks (TLA+ strings); the empty string is     *)
(* <<>>; computed strings (hex UIDs, scores) are sequences of single       *)
(* characters; concatenation is \o.                                        *)
(***************************************************************************)
EXTENDS Integers, Sequences, FiniteSets, TLC

VARIABLES
    nfc_pc,         \* NFC thread: "start", "poll", "guests", "returned", "panicked"
    acr122u,        \* NFC thread: the reader selected at startup (<<>> before)
    last_uid,       \* NFC thread: the local last_uid
    nfcCall,        \* NFC thread: the post_guests call in progress
    nfcUid,         \* NFC thread: uid_str of the cycle in progress
    ui_pc,          \* UI thread: "idle", "get_by_slug", "load_score"
    uiCall,         \* UI thread: the request call the submit handler is in
    uiQueue,        \* closures passed to invoke_from_event_loop, not yet run
    card_uid,       \* UI property card_uid
    user_name,      \* UI property user_name
    current_screen, \* UI property current_screen
    trivia_name,    \* UI property trivia_name
    submit,         \* the submit handler's locals (score, gettag, checkpoint_id)
    cycle,          \* history: the poll cycle begun last (number, input, event)
    runs,           \* history: the current run of reads of one card / of no-card cycles
    nfcLog,         \* history: the requests the NFC thread issued (first send of a call)
    uiLog,          \* history: the requests the current (or last) submit flow issued
    submits,        \* history: number of submit requests triggered
    flow,           \* history: the current (or last) submit flow, as observed
    scan,           \* history: the results of post_guests in the scan flow
    startup,        \* history: what the NFC thread's startup met and queued
    rq,         \* request harness: the call record of the request in progress
    rqLog,      \* request harness: the outcome each attempt received, in order
    vIn,        \* validate harness: the arguments of validate_inputs
    vOut,       \* validate harness: its result (NotCalled before the call)
    vNet        \* validate harness: number of network requests made

nfcVars == <<nfc_pc, acr122u, last_uid, nfcCall, nfcUid, cycle, runs>>
uiVars == <<ui_pc, uiCall, card_uid, user_name, current_screen, trivia_name, submit>>
logVars == <<nfcLog, uiLog, submits>>
histVars == <<flow, scan, startup>>
mainVars == <<nfcVars, uiVars, uiQueue, logVars, histVars>>
harnessVars == <<rq, rqLog, vIn, vOut, vNet>>
vars == <<mainVars, harnessVars>>

\* ------------------------------------------------------------------ bounds

\* largest max_retries the request harness draws
MaxRetries == 3

\* ------------------------------------------------------- program constants

STATUS_OK == 200
STATUS_CONFLICT == 409
STATUS_TOO_MANY_REQUESTS == 429
STATUS_SERVICE_UNAVAILABLE == 503

\* width of the u64 that `1 << attempt` is computed in
SleepBits == 64

\* --------------------------------------------------------------- HTTP world

\* statuses that no request function special-cases
OtherStatuses == {500}

StatusCodes ==
    {STATUS_OK, STATUS_CONFLICT, STATUS_TOO_MANY_REQUESTS, STATUS_SERVICE_UNAVAILABLE}
        \cup OtherStatuses

\* Response bodies: "unreadable" is a body whose transfer fails, "garbage" is
\* text that is no JSON, the others are JSON objects of the named shape.
Bodies == {"unreadable", "garbage", "checkpoint", "guests0", "guestsNoTag", "guestsAlice"}

\* What one send() can produce: a transport failure or a response.
NetOutcomes ==
    {[kind |-> "transport"]} \cup
    {[kind |-> "resp", status |-> s, body |-> b] : s \in StatusCodes, b \in Bodies}

IsJsonObject(body) == body \notin {"unreadable", "garbage"}

\* resp.text().unwrap_or_else(|_| "Unknown error")
TextOrUnknown(body) == IF body = "unreadable" THEN "Unknown error" ELSE body

NoTag == [some |-> FALSE]
SomeTag(t) == [some |-> TRUE, v |-> t]

\* serde decoding of a body into GuestsPostResponse.guests
GuestsOf(body) ==
    CASE body = "guests0" -> <<>>
      [] body = "guestsNoTag" -> <<[name |-> <<"Bob">>, tag |-> NoTag]>>
      [] body = "guestsAlice" -> <<[name |-> <<"Alice">>, tag |-> SomeTag(<<"g-123">>)]>>
      [] OTHER -> <<>>

IsGuestsBody(body) == body \in {"guests0", "guestsNoTag", "guestsAlice"}

\* ------------------------------------------------------------ AppError, Result

Ok(v) == [ok |-> TRUE, val |-> v]
ApiError(status, message) ==
    [ok |-> FALSE, err |-> "ApiError", status |-> status, message |-> message]
\* AppError::Http(reqwest::Error): cause is "transport" (send failed) or
\* "body" (the body could not be read or decoded by reqwest)
HttpError(cause) == [ok |-> FALSE, err |-> "Http", cause |-> cause]
JsonError == [ok |-> FALSE, err |-> "Json"]
InvalidInput(message) == [ok |-> FALSE, err |-> "InvalidInput", message |-> message]

Pending == [ok |-> FALSE, err |-> "pending"]
NotCalled == [called |-> FALSE]

ScoreAlreadyLoaded == [message |-> "Score already loaded"]

\* --------------------------------------------------------- request functions

RECURSIVE Pow2(_)
Pow2(n) == IF n = 0 THEN 1 ELSE 2 * Pow2(n - 1)

\* mutant: backoff indexed by attempt - 1 (1, 2, 4, ...)
BackoffSecs_FromZero(attempt) == Pow2((attempt - 1) % SleepBits)

\* Duration::from_secs(1 << attempt), in seconds
BackoffSecs(attempt) == Pow2(attempt % SleepBits)

\* A call record: attempt is the loop variable of `for attempt in 1..=max_retries`,
\* sent counts the send() calls made, sleeps lists the thread::sleep durations.
RequestFns == {"post_get_by_slug", "get_visual", "post_guests", "post_load_score"}

MaxRetriesReached == ApiError(0, "Max retries reached")

\* Entering the function: the loop runs no iteration when max_retries = 0.
BeginCall(fn, max) ==
    [fn |-> fn, max |-> max, attempt |-> 1, sent |-> 0, sleeps |-> <<>>,
     done |-> (max = 0),
     result |-> IF max = 0 THEN MaxRetriesReached ELSE Pending]

Return(call, result) == [call EXCEPT !.done = TRUE, !.result = result]

\* mutant: the next iteration begins without a sleep
SleepAndRetry_NoSleep(call) == [call EXCEPT !.attempt = @ + 1]

\* thread::sleep(Duration::from_secs(1 << attempt)) and the next iteration.
SleepAndRetry(call) ==
    [call EXCEPT !.sleeps = Append(@, BackoffSecs(call.attempt)),
                 !.attempt = @ + 1]

\* mutant: every non-200 status is retried like 429/503
post_get_by_slug_RetryAnyStatus(call, out) ==
    LET c == [call EXCEPT !.sent = @ + 1] IN
    IF out.kind = "resp" THEN
        CASE out.status = STATUS_OK ->
                IF out.body = "checkpoint"
                THEN Return(c, Ok([checkpoint |-> out.body]))
                ELSE Return(c, HttpError("body"))
          [] OTHER ->
                IF c.attempt = c.max
                THEN Return(c, ApiError(out.status, TextOrUnknown(out.body)))
                ELSE SleepAndRetry(c)
    ELSE
        IF c.attempt = c.max
        THEN Return(c, HttpError("transport"))
        ELSE SleepAndRetry(c)

\* One iteration of the loop of post_get_by_slug, given what send() produced.
post_get_by_slug(call, out) ==
    LET c == [call EXCEPT !.sent = @ + 1] IN
    IF out.kind = "resp" THEN
        CASE out.status = STATUS_OK ->
                IF out.body = "checkpoint"
                THEN Return(c, Ok([checkpoint |-> out.body]))
                ELSE Return(c, HttpError("body"))
          [] out.status \in {STATUS_TOO_MANY_REQUESTS, STATUS_SERVICE_UNAVAILABLE} ->
                IF c.attempt = c.max
                THEN Return(c, ApiError(out.status, TextOrUnknown(out.body)))
                ELSE SleepAndRetry(c)
          [] OTHER -> Return(c, ApiError(out.status, TextOrUnknown(out.body)))
    ELSE
        IF c.attempt = c.max
        THEN Return(c, HttpError("transport"))
        ELSE SleepAndRetry(c)

\* mutant: a transport failure is returned at once, never retried
get_visual_NoTransportRetry(call, out) ==
    LET c == [call EXCEPT !.sent = @ + 1] IN
    IF out.kind = "resp" THEN
        CASE out.status = STATUS_OK ->
                IF IsJsonObject(out.body)
                THEN Return(c, Ok([json |-> out.body]))
                ELSE Return(c, HttpError("body"))
          [] out.status \in {STATUS_TOO_MANY_REQUESTS, STATUS_SERVICE_UNAVAILABLE} ->
                IF c.attempt = c.max
                THEN Return(c, ApiError(out.status, TextOrUnknown(out.body)))
                ELSE SleepAndRetry(c)
          [] OTHER -> Return(c, ApiError(out.status, TextOrUnknown(out.body)))
    ELSE Return(c, HttpError("transport"))

\* One iteration of the loop of get_visual.
get_visual(call, out) ==
    LET c == [call EXCEPT !.sent = @ + 1] IN
    IF out.kind = "resp" THEN
        CASE out.status = STATUS_OK ->
                IF IsJsonObject(out.body)
                THEN Return(c, Ok([json |-> out.body]))
                ELSE Return(c, HttpError("body"))
          [] out.status \in {STATUS_TOO_MANY_REQUESTS, STATUS_SERVICE_UNAVAILABLE} ->
                IF c.attempt = c.max
                THEN Return(c, ApiError(out.status, TextOrUnknown(out.body)))
                ELSE SleepAndRetry(c)
          [] OTHER -> Return(c, ApiError(out.status, TextOrUnknown(out.body)))
    ELSE
        IF c.attempt = c.max
        THEN Return(c, HttpError("transport"))
        ELSE SleepAndRetry(c)

\* mutant: a 200 whose body cannot be read or decoded is retried
post_guests_RetryBadBody(call, out) ==
    LET c == [call EXCEPT !.sent = @ + 1] IN
    IF out.kind = "resp" THEN
        CASE out.status = STATUS_OK ->
                IF IsGuestsBody(out.body)
                THEN Return(c, Ok([guests |-> GuestsOf(out.body)]))
                ELSE IF c.attempt = c.max
                THEN Return(c, IF out.body = "unreadable" THEN HttpError("body") ELSE JsonError)
                ELSE SleepAndRetry(c)
          [] out.status \in {STATUS_TOO_MANY_REQUESTS, STATUS_SERVICE_UNAVAILABLE} ->
                IF c.attempt = c.max
                THEN Return(c, ApiError(out.status, TextOrUnknown(out.body)))
                ELSE SleepAndRetry(c)
          [] OTHER -> Return(c, ApiError(out.status, TextOrUnknown(out.body)))
    ELSE
        IF c.attempt = c.max
        THEN Return(c, HttpError("transport"))
        ELSE SleepAndRetry(c)

\* One iteration of the loop of post_guests.
post_guests(call, out) ==
    LET c == [call EXCEPT !.sent = @ + 1] IN
    IF out.kind = "resp" THEN
        CASE out.status = STATUS_OK ->
                IF out.body = "unreadable" THEN Return(c, HttpError("body"))
                ELSE IF IsGuestsBody(out.body)
                THEN Return(c, Ok([guests |-> GuestsOf(out.body)]))
                ELSE Return(c, JsonError)
          [] out.status \in {STATUS_TOO_MANY_REQUESTS, STATUS_SERVICE_UNAVAILABLE} ->
                IF c.attempt = c.max
                THEN Return(c, ApiError(out.status, TextOrUnknown(out.body)))
                ELSE SleepAndRetry(c)
          [] OTHER -> Return(c, ApiError(out.status, TextOrUnknown(out.body)))
    ELSE
        IF c.attempt = c.max
        THEN Return(c, HttpError("transport"))
        ELSE SleepAndRetry(c)

\* mutant: no CONFLICT arm, 409 falls into the catch-all status arm
post_load_score_NoConflictArm(call, out) ==
    LET c == [call EXCEPT !.sent = @ + 1] IN
    IF out.kind = "resp" THEN
        CASE out.status = STATUS_OK ->
                IF IsJsonObject(out.body)
                THEN Return(c, Ok([json |-> out.body]))
                ELSE Return(c, HttpError("body"))
          [] out.status \in {STATUS_TOO_MANY_REQUESTS, STATUS_SERVICE_UNAVAILABLE} ->
                IF c.attempt = c.max
                THEN Return(c, ApiError(out.status, TextOrUnknown(out.body)))
                ELSE SleepAndRetry(c)
          [] OTHER -> Return(c, ApiError(out.status, TextOrUnknown(out.body)))
    ELSE
        IF c.attempt = c.max
        THEN Return(c, HttpError("transport"))
        ELSE SleepAndRetry(c)

\* One iteration of the loop of post_load_score.
post_load_score(call, out) ==
    LET c == [call EXCEPT !.sent = @ + 1] IN
    IF out.kind = "resp" THEN
        CASE out.status = STATUS_OK ->
                IF IsJsonObject(out.body)
                THEN Return(c, Ok([json |-> out.body]))
                ELSE Return(c, HttpError("body"))
          [] out.status = STATUS_CONFLICT -> Return(c, Ok(ScoreAlreadyLoaded))
          [] out.status \in {STATUS_TOO_MANY_REQUESTS, STATUS_SERVICE_UNAVAILABLE} ->
                IF c.attempt = c.max
                THEN Return(c, ApiError(out.status, TextOrUnknown(out.body)))
                ELSE SleepAndRetry(c)
          [] OTHER -> Return(c, ApiError(out.status, TextOrUnknown(out.body)))
    ELSE
        IF c.attempt = c.max
        THEN Return(c, HttpError("transport"))
        ELSE SleepAndRetry(c)

\* Dispatch on the function a call record belongs to.
RequestStep(call, out) ==
    CASE call.fn = "post_get_by_slug" -> post_get_by_slug(call, out)
      [] call.fn = "get_visual" -> get_visual(call, out)
      [] call.fn = "post_guests" -> post_guests(call, out)
      [] call.fn = "post_load_score" -> post_load_score(call, out)

\* ------------------------------------------------ request harness (SpecRetry)

\* The state of the variables a harness does not use.
IdleValidate == vIn = <<>> /\ vOut = NotCalled /\ vNet = 0
IdleRequest == rq = BeginCall("post_get_by_slug", 0) /\ rqLog = <<>>
NoCall == BeginCall("none", 0)
\* The poll cycle begun last. n: cycles begun so far; in: what the cycle met
\* (see Met); uid: the UID string of the payload when in = "card";
\* before, after: last_uid when the cycle began and after it;
\* called: the cycle went on to call post_guests; queued: the closures the
\* cycle passed to the event loop; alive: the thread is still in its loop.
NoCycle ==
    [n |-> 0, in |-> "none", uid |-> <<>>, before |-> <<>>, after |-> <<>>,
     called |-> FALSE, queued |-> <<>>, alive |-> TRUE]
\* card: the UID read by the valid reads since the last no-card cycle or other
\* card (<<>>: none); presents: the calls of post_guests these reads led to;
\* gone: the consecutive no-card cycles up to now; after_card: whether a card
\* was read since the no-card cycle before them; absents: the removal
\* closures they queued.
NoRuns == [card |-> <<>>, presents |-> 0, gone |-> 0, after_card |-> FALSE, absents |-> 0]
NoSubmit == [score |-> <<>>, gettag |-> <<>>, checkpoint_id |-> 0]
\* flow: mode is the mode selected when the handler was entered; lookup and
\* score tell how its post_get_by_slug and post_load_score calls returned
\* ("none", "ok", "err"); queued lists the closures the handler passed to the
\* event loop; touched tells whether the handler wrote a UI property itself;
\* finished counts the handler's returns; scanned tells whether the poll loop
\* changed last_uid while the handler was running; prior tells how the flow
\* before this one ended ("none", "ok", "err"); card is the card_uid field
\* when the handler was entered.
NoFlow ==
    [mode |-> <<>>, lookup |-> "none", score |-> "none", queued |-> <<>>,
     touched |-> FALSE, finished |-> 0, scanned |-> FALSE, prior |-> "none",
     card |-> <<>>]
\* scan: last is the result of the post_guests call that returned in the
\* cycle made last (NotCalled otherwise) and queued the closures the scan
\* flow then passed to the event loop, in order; tags are the tags the server
\* returned to the scan flow so far.
NoScan == [last |-> NotCalled, queued |-> <<>>, tags |-> {}]
\* startup: what Context::establish, list_readers and find gave (as far as
\* the thread got) and the closures the startup queued.
NoStartup ==
    [done |-> FALSE, established |-> FALSE, listed |-> FALSE, readers |-> <<>>,
     queued |-> <<>>]
IdleMain ==
    /\ nfc_pc = "start" /\ acr122u = <<>> /\ last_uid = <<>>
    /\ nfcCall = NoCall /\ nfcUid = <<>>
    /\ ui_pc = "idle" /\ uiCall = NoCall /\ uiQueue = <<>>
    /\ card_uid = <<>> /\ user_name = <<>> /\ current_screen = <<>>
    /\ trivia_name = <<>> /\ submit = NoSubmit
    /\ cycle = NoCycle /\ runs = NoRuns
    /\ nfcLog = <<>> /\ uiLog = <<>> /\ submits = 0
    /\ flow = NoFlow /\ scan = NoScan /\ startup = NoStartup

\* A request function is entered with any max_retries up to the bound.
InitRetry ==
    /\ \E fn \in RequestFns, max \in 0..MaxRetries : rq = BeginCall(fn, max)
    /\ rqLog = <<>>
    /\ IdleValidate
    /\ IdleMain

\* The next iteration of the retry loop: send() produces some outcome.
RetryAttempt ==
    /\ ~rq.done
    /\ \E out \in NetOutcomes :
          /\ rq' = RequestStep(rq, out)
          /\ rqLog' = Append(rqLog, out)
    /\ UNCHANGED <<vIn, vOut, vNet, mainVars>>

NextRetry == RetryAttempt

SpecRetry == InitRetry /\ [][NextRetry]_vars

\* ------------------------------------------------------------ claims C5 - C8

IsResp(out) == out.kind = "resp"
IsTransport(out) == out.kind = "transport"
IsRetryStatus(out) ==
    IsResp(out) /\ out.status \in {STATUS_TOO_MANY_REQUESTS, STATUS_SERVICE_UNAVAILABLE}
Min(a, b) == IF a < b THEN a ELSE b
LastOutcome == rqLog[Len(rqLog)]

\* C5: in each request function called with max_retries >= 1, while every
\* attempt so far received 429 or 503: the call is over exactly when
\* max_retries attempts were made, the k-th sleep lasted 2^k seconds and there
\* is one after each attempt but the max_retries-th, and the result is an
\* ApiError with the last response's status and body text.
C5_AlwaysRateLimited ==
    (rq.max >= 1 /\ \A i \in 1..Len(rqLog) : IsRetryStatus(rqLog[i])) =>
        /\ rq.sent = Len(rqLog)
        /\ rq.sent <= rq.max
        /\ rq.done <=> (rq.sent = rq.max)
        /\ rq.sleeps = [k \in 1..Min(rq.sent, rq.max - 1) |-> 2^k]
        /\ rq.done =>
              rq.result = ApiError(LastOutcome.status, TextOrUnknown(LastOutcome.body))

C5_Witness ==
    /\ rq.done /\ rq.max = 3 /\ rq.sent = 3 /\ rq.fn = "post_guests"
    /\ \A i \in 1..3 : IsRetryStatus(rqLog[i])
    /\ rqLog[1].status # rqLog[3].status

\* C6: in post_load_score an attempt that receives 409, whatever came before
\* it, is the last attempt: the call has returned Ok with the
\* "Score already loaded" payload, and the sleeps are exactly those that
\* followed the earlier attempts.
C6_ConflictIsSuccess ==
    rq.fn = "post_load_score" =>
        \A i \in 1..Len(rqLog) :
            (IsResp(rqLog[i]) /\ rqLog[i].status = STATUS_CONFLICT) =>
                /\ i = Len(rqLog)
                /\ rq.sent = i
                /\ rq.done
                /\ rq.result = Ok(ScoreAlreadyLoaded)
                /\ Len(rq.sleeps) = i - 1

C6_Witness ==
    /\ rq.fn = "post_load_score" /\ Len(rqLog) = 3 /\ rq.done
    /\ IsTransport(rqLog[1]) /\ IsRetryStatus(rqLog[2])
    /\ IsResp(rqLog[3]) /\ rqLog[3].status = STATUS_CONFLICT

\* the statuses a request function gives no arm of their own
IsFatalStatus(fn, out) ==
    /\ IsResp(out)
    /\ out.status \notin {STATUS_OK, STATUS_TOO_MANY_REQUESTS, STATUS_SERVICE_UNAVAILABLE}
    /\ ~(fn = "post_load_score" /\ out.status = STATUS_CONFLICT)

\* C7: in every request function an attempt that receives a fatal status is
\* the last attempt: the call has returned an ApiError carrying that status,
\* and no sleep follows it.
C7_FatalStatusNotRetried ==
    \A i \in 1..Len(rqLog) :
        IsFatalStatus(rq.fn, rqLog[i]) =>
            /\ i = Len(rqLog)
            /\ rq.sent = i
            /\ rq.done
            /\ rq.result = ApiError(rqLog[i].status, TextOrUnknown(rqLog[i].body))
            /\ Len(rq.sleeps) = i - 1

C7_Witness ==
    /\ rq.fn = "post_get_by_slug" /\ rq.max = 3 /\ Len(rqLog) = 2 /\ rq.done
    /\ IsFatalStatus(rq.fn, rqLog[2]) /\ rqLog[2].status = STATUS_CONFLICT

\* C8: a transport failure or a 429/503 at attempt i < max_retries is followed
\* by a sleep of 2^i seconds and the call goes on to attempt i + 1, whatever
\* the kinds of the earlier failures; a transport failure at attempt
\* max_retries ends the call with the transport error, with no sleep after it.
C8_TransportRetried ==
    \A i \in 1..Len(rqLog) :
        /\ (i < rq.max /\ (IsTransport(rqLog[i]) \/ IsRetryStatus(rqLog[i]))) =>
              /\ Len(rq.sleeps) >= i
              /\ rq.sleeps[i] = 2^i
              /\ (Len(rqLog) = i => (~rq.done /\ rq.attempt = i + 1))
        /\ (i = rq.max /\ IsTransport(rqLog[i])) =>
              /\ i = Len(rqLog)
              /\ rq.sent = i
              /\ rq.done
              /\ rq.result = HttpError("transport")
              /\ Len(rq.sleeps) = i - 1

C8_Witness ==
    /\ rq.fn = "get_visual" /\ rq.max = 3 /\ Len(rqLog) = 3 /\ rq.done
    /\ IsRetryStatus(rqLog[1]) /\ IsTransport(rqLog[2]) /\ IsTransport(rqLog[3])
    /\ rq.sleeps = <<2, 4>>

\* ------------------------------------------------------------ validate_inputs

Digits == <<"0", "1", "2", "3", "4", "5", "6", "7", "8", "9">>
IsDigit(c) == \E d \in 1..10 : Digits[d] = c
DigitValue(c) == (CHOOSE d \in 1..10 : Digits[d] = c) - 1

I32_MAX == 2147483647
I32_MIN == -I32_MAX - 1

IntOk(n) == [ok |-> TRUE, v |-> n]
IntErr(kind) == [ok |-> FALSE, kind |-> kind]

\* i32::checked_mul(10) then checked_add(d) (checked_sub(d) for a negative
\* number): an overflow error when either leaves the i32 range.
CheckedPush(acc, d, positive) ==
    IF positive
    THEN IF acc > I32_MAX \div 10 THEN IntErr("PosOverflow")
         ELSE IF acc * 10 > I32_MAX - d THEN IntErr("PosOverflow")
         ELSE IntOk(acc * 10 + d)
    ELSE IF acc <= I32_MIN \div 10 THEN IntErr("NegOverflow")
         ELSE IF acc * 10 < I32_MIN + d THEN IntErr("NegOverflow")
         ELSE IntOk(acc * 10 - d)

\* The digit loop of <i32 as FromStr>::from_str: InvalidDigit on a non-digit,
\* an overflow error when the accumulator leaves i32.
RECURSIVE ParseDigits(_, _, _)
ParseDigits(s, acc, positive) ==
    IF s = <<>> THEN IntOk(acc)
    ELSE IF ~IsDigit(s[1]) THEN IntErr("InvalidDigit")
    ELSE LET next == CheckedPush(acc, DigitValue(s[1]), positive) IN
         IF ~next.ok THEN next
         ELSE ParseDigits(Tail(s), next.v, positive)

\* score.parse::<i32>(): an optional sign, then at least one decimal digit.
ParseI32(s) ==
    IF s = <<>> THEN IntErr("Empty")
    ELSE IF s \in {<<"+">>, <<"-">>} THEN IntErr("InvalidDigit")
    ELSE IF s[1] = "+" THEN ParseDigits(Tail(s), 0, TRUE)
    ELSE IF s[1] = "-" THEN ParseDigits(Tail(s), 0, FALSE)
    ELSE ParseDigits(s, 0, TRUE)

ParseIsErr(s) == ~ParseI32(s).ok

\* mutant: the loop over guest_tags is missing
validate_inputs_NoTagLoop(access_token, slug, guest_tags, score) ==
    IF access_token = <<>> THEN InvalidInput("Access token cannot be empty")
    ELSE IF slug = <<>> THEN InvalidInput("Slug cannot be empty")
    ELSE IF guest_tags = <<>> THEN InvalidInput("At least one guest tag is required")
    ELSE IF score = <<>> THEN InvalidInput("Score cannot be empty")
    ELSE IF ParseIsErr(score) THEN InvalidInput("Score must be a valid integer")
    ELSE Ok(<<>>)

validate_inputs(access_token, slug, guest_tags, score) ==
    IF access_token = <<>> THEN InvalidInput("Access token cannot be empty")
    ELSE IF slug = <<>> THEN InvalidInput("Slug cannot be empty")
    ELSE IF guest_tags = <<>> THEN InvalidInput("At least one guest tag is required")
    ELSE IF \E i \in 1..Len(guest_tags) : guest_tags[i] = <<>>
         THEN InvalidInput("Guest tags cannot be empty")
    ELSE IF score = <<>> THEN InvalidInput("Score cannot be empty")
    ELSE IF ParseIsErr(score) THEN InvalidInput("Score must be a valid integer")
    ELSE Ok(<<>>)

\* ---------------------------------------------- validate harness (SpecValidate)

\* longest guest-tag list the validate harness draws
MaxTags == 2

SampleTokens == {<<>>, <<"eyJ0eXAi">>}
SampleSlugs == {<<>>, <<"checkpoint-prueba-546">>}
SampleTags == {<<>>, <<"g-123">>}
SampleScores ==
    {<<>>, <<"5">>, <<"-", "5">>, <<"+", "5">>, <<"0", "0", "7">>,
     <<"+">>, <<"-">>, <<"a">>, <<"5", "a">>, <<" ", "5">>, <<"5", ".", "0">>,
     <<"-", "-", "5">>,
     <<"2", "1", "4", "7", "4", "8", "3", "6", "4", "7">>,
     <<"2", "1", "4", "7", "4", "8", "3", "6", "4", "8">>,
     <<"-", "2", "1", "4", "7", "4", "8", "3", "6", "4", "8">>,
     <<"-", "2", "1", "4", "7", "4", "8", "3", "6", "4", "9">>,
     <<"9", "9", "9", "9", "9", "9", "9", "9", "9", "9", "9">>}

TagLists == UNION {[1..n -> SampleTags] : n \in 0..MaxTags}

InitValidate ==
    /\ vIn \in {[access_token |-> t, slug |-> s, guest_tags |-> g, score |-> sc] :
                  t \in SampleTokens, s \in SampleSlugs, g \in TagLists,
                  sc \in SampleScores}
    /\ vOut = NotCalled
    /\ vNet = 0
    /\ IdleRequest
    /\ IdleMain

\* The call validate_inputs(access_token, slug, guest_tags, score).
CallValidate ==
    /\ vOut = NotCalled
    /\ vOut' = validate_inputs(vIn.access_token, vIn.slug, vIn.guest_tags, vIn.score)
    /\ UNCHANGED <<vIn, vNet, rq, rqLog, mainVars>>

NextValidate == CallValidate

SpecValidate == InitValidate /\ [][NextValidate]_vars

\* ---------------------------------------------------------------- claim C9

\* A decimal i32 literal, stated on the text: an optional sign, one or more
\* digits and, leading zeros aside, at most 10 digits that do not exceed
\* 2147483647 (2147483648 after a minus sign) digit by digit.
RECURSIVE StripZeros(_)
StripZeros(s) == IF s # <<>> /\ s[1] = "0" THEN StripZeros(Tail(s)) ELSE s

RECURSIVE LexLeq(_, _)
LexLeq(a, b) ==
    IF a = <<>> THEN TRUE
    ELSE IF DigitValue(a[1]) # DigitValue(b[1]) THEN DigitValue(a[1]) < DigitValue(b[1])
    ELSE LexLeq(Tail(a), Tail(b))

I32MaxText == <<"2", "1", "4", "7", "4", "8", "3", "6", "4", "7">>
I32MinText == <<"2", "1", "4", "7", "4", "8", "3", "6", "4", "8">>

IsI32Text(s) ==
    LET signed == s # <<>> /\ s[1] \in {"+", "-"}
        neg == s # <<>> /\ s[1] = "-"
        body == IF signed THEN Tail(s) ELSE s
        z == StripZeros(body)
    IN /\ body # <<>>
       /\ \A i \in 1..Len(body) : IsDigit(body[i])
       /\ \/ Len(z) < Len(I32MaxText)
          \/ Len(z) = Len(I32MaxText) /\ LexLeq(z, IF neg THEN I32MinText ELSE I32MaxText)

\* C9: validate_inputs returns an error exactly when the access token is
\* empty, the slug is empty, the guest-tag list is empty, some guest tag is
\* empty, the score is empty or the score is no decimal i32 literal; the error
\* is an InvalidInput, the result is Ok otherwise; the call makes no network
\* request.
C9_ValidateIff ==
    vOut # NotCalled =>
        /\ ~vOut.ok <=>
              \/ vIn.access_token = <<>>
              \/ vIn.slug = <<>>
              \/ vIn.guest_tags = <<>>
              \/ \E i \in 1..Len(vIn.guest_tags) : vIn.guest_tags[i] = <<>>
              \/ vIn.score = <<>>
              \/ ~IsI32Text(vIn.score)
        /\ ~vOut.ok => vOut.err = "InvalidInput"
        /\ vNet = 0

C9_Witness ==
    /\ vOut # NotCalled /\ ~vOut.ok
    /\ vIn.access_token # <<>> /\ vIn.slug # <<>>
    /\ Len(vIn.guest_tags) = 2 /\ vIn.guest_tags[1] # <<>> /\ vIn.guest_tags[2] = <<>>
    /\ IsI32Text(vIn.score)

\* ------------------------------------------------------------- the kiosk (Spec)

\* number of poll cycles the NFC thread begins in SpecPoller
MaxCycles == 4
\* number of events the kiosk meets in Spec: poll cycles begun and submit
\* requests triggered, together
MaxEvents == 2

\* number of closures that can wait in the event loop's queue
MaxQueue == 2

\* max_retries passed at every call site of main
CallMaxRetries == 3

\* CONFIG.reader_name
ReaderNameFragment == "ACR122"
\* CONFIG.valid_uid_lengths
valid_uid_lengths == {4, 7, 10}

\* What list_readers can enumerate (a reader name is a sequence of chunks).
ReaderLists ==
    {<<>>,
     <<<<"OMNIKEY 5022">>>>,
     <<<<"OMNIKEY 5022">>, <<"ACS ", "ACR122", "U PICC 0">>, <<"ACS ", "ACR122", "U PICC 1">>>>}

\* r.to_string_lossy().contains(&CONFIG.reader_name)
Contains(name, fragment) == \E i \in 1..Len(name) : name[i] = fragment

\* What card.transmit can write to recv_buffer: the bytes of the response.
Responses ==
    {<<4, 161, 178, 195, 144, 0>>,          \* UID 04 A1 B2 C3, trailer 90 00
     <<4, 10, 11, 12, 13, 14, 15, 144, 0>>, \* a 7-byte UID, trailer 90 00
     <<1, 2, 3, 144, 0>>,                   \* a 3-byte payload, trailer 90 00
     <<4, 161, 178, 195, 99, 0>>,           \* trailer 63 00
     <<144>>,                               \* one byte
     <<>>}                                  \* no byte

\* The results of card.transmit: a failure or a response.
Transmits == {[ok |-> FALSE]} \cup {[ok |-> TRUE, bytes |-> r] : r \in Responses}
HexDigits == <<"0", "1", "2", "3", "4", "5", "6", "7", "8", "9",
               "A", "B", "C", "D", "E", "F">>

\* format!("{:02X}", b)
HexByte(b) == <<HexDigits[(b \div 16) + 1], HexDigits[(b % 16) + 1]>>

\* uid.iter().map(|b| format!("{:02X}", b)).collect::<Vec<_>>().join("")
RECURSIVE UidStr(_)
UidStr(uid) == IF uid = <<>> THEN <<>> ELSE HexByte(uid[1]) \o UidStr(Tail(uid))

\* Display of an AppError: some non-empty text (its wording is left out).
ErrDisplay(e) == <<"{e}">>

\* The closure show_error passes to the event loop.
show_error(message) == [op |-> "set_card_uid", text |-> <<"Error: ">> \o message]
\* mutant: the closure of the scan flow is built without the tag
ScanUpdate_TagLost(username, tag) == [op |-> "scan_update", username |-> username, tag |-> <<>>]
\* The closure of the scan flow (lines 638-644).
ScanUpdate(username, tag) == [op |-> "scan_update", username |-> username, tag |-> tag]
\* The closure with an empty body (lines 670-673).
EmptyClosure == [op |-> "noop"]

\* The outcomes of send() that differ in what the kiosk does with them: a
\* non-200 response matters by its status alone.
KioskOutcomes ==
    {out \in NetOutcomes : out.kind = "resp" /\ out.status # STATUS_OK => out.body = "garbage"}

Request(by, fn, guest_tag, checkpoint_id, score) ==
    [by |-> by, fn |-> fn, guest_tag |-> guest_tag,
     checkpoint_id |-> checkpoint_id, score |-> score]

\* What a cycle met, told from the results of connect and transmit alone:
\* connect failed with NoSmartcard or otherwise, transmit failed, the response
\* has fewer than 2 bytes, does not end in 90 00, carries a payload of a
\* length outside the allow-list, or carries a UID.
Met(connect, tx) ==
    CASE connect = "NoSmartcard" -> "no_card"
      [] connect = "Other" -> "connect_error"
      [] ~tx.ok -> "transmit_failed"
      [] Len(tx.bytes) < 2 -> "short_response"
      [] SubSeq(tx.bytes, Len(tx.bytes) - 1, Len(tx.bytes)) # <<144, 0>> -> "bad_trailer"
      [] Len(tx.bytes) - 2 \notin {4, 7, 10} -> "bad_length"
      [] OTHER -> "card"

\* The history of the cycle just made (reads the new state of the thread).
Observed(connect, tx) ==
    LET in == Met(connect, tx)
        uid == IF in = "card" THEN UidStr(SubSeq(tx.bytes, 1, Len(tx.bytes) - 2)) ELSE <<>>
        called == nfc_pc' = "guests"
        queued == SubSeq(uiQueue', Len(uiQueue) + 1, Len(uiQueue'))
    IN
    /\ cycle' = [n |-> cycle.n + 1, in |-> in, uid |-> uid,
                 before |-> last_uid, after |-> last_uid',
                 called |-> called, queued |-> queued,
                 alive |-> nfc_pc' \in {"poll", "guests"}]
    /\ runs' =
        CASE in = "card" ->
               [card |-> uid,
                presents |-> (IF uid = runs.card THEN runs.presents ELSE 0)
                                + (IF called THEN 1 ELSE 0),
                gone |-> 0, after_card |-> FALSE, absents |-> 0]
          [] in = "no_card" ->
               [card |-> <<>>, presents |-> 0,
                gone |-> runs.gone + 1,
                after_card |-> IF runs.gone = 0 THEN runs.card # <<>> ELSE runs.after_card,
                absents |-> runs.absents + Len(queued)]
          [] OTHER -> [runs EXCEPT !.gone = 0, !.after_card = FALSE, !.absents = 0]
    /\ scan' = [scan EXCEPT !.last = NotCalled, !.queued = <<>>]
    /\ flow' = IF ui_pc # "idle" /\ last_uid' # last_uid
               THEN [flow EXCEPT !.scanned = TRUE]
               ELSE flow

Init ==
    /\ IdleMain
    /\ IdleRequest
    /\ IdleValidate

\* SubSeq without its last n elements
DropLast(sq, n) == SubSeq(sq, 1, Len(sq) - n)

\* ---- NFC thread

\* mutant: the last matching reader is taken
FindReader_Last(readers) ==
    LET matching == {i \in 1..Len(readers) : Contains(readers[i], ReaderNameFragment)}
    IN IF matching = {} THEN 0
       ELSE CHOOSE i \in matching : \A j \in matching : i >= j

\* Lines 577-578: readers.into_iter().find(|r| ...contains(&CONFIG.reader_name)),
\* as the position of the reader found (0 for None).
FindReader(readers) ==
    LET matching == {i \in 1..Len(readers) : Contains(readers[i], ReaderNameFragment)}
    IN IF matching = {} THEN 0
       ELSE CHOOSE i \in matching : \A j \in matching : i <= j

\* Lines 560-587: establish the context, list the readers, find the reader.
NfcStartup ==
    /\ nfc_pc = "start"
    /\ \E established \in BOOLEAN :
       \E listed \in IF established THEN BOOLEAN ELSE {FALSE} :
       \E readers \in IF listed THEN ReaderLists ELSE {<<>>} :
          /\ IF ~established THEN
                 /\ uiQueue' = Append(uiQueue, show_error(<<"Failed to establish PC/SC context">>))
                 /\ nfc_pc' = "returned"
                 /\ UNCHANGED acr122u
             ELSE IF ~listed THEN
                 /\ uiQueue' = Append(uiQueue, show_error(<<"Failed to list readers">>))
                 /\ nfc_pc' = "returned"
                 /\ UNCHANGED acr122u
             ELSE IF FindReader(readers) = 0 THEN
                 /\ uiQueue' = Append(uiQueue, show_error(<<"No ACR122U reader found!">>))
                 /\ nfc_pc' = "returned"
                 /\ UNCHANGED acr122u
             ELSE
                 /\ acr122u' = readers[FindReader(readers)]
                 /\ nfc_pc' = "poll"
                 /\ UNCHANGED uiQueue
          /\ startup' = [done |-> TRUE, established |-> established, listed |-> listed,
                         readers |-> readers,
                         queued |-> SubSeq(uiQueue', Len(uiQueue) + 1, Len(uiQueue'))]
    /\ last_uid' = <<>>
    /\ UNCHANGED <<nfcCall, nfcUid, cycle, runs, uiVars, logVars, flow, scan, harnessVars>>
    /\ Len(uiQueue') <= MaxQueue

\* mutant: a cycle that reports an error forgets the stored UID
CycleReports_ClearsUid(message) ==
    /\ uiQueue' = Append(uiQueue, show_error(message))
    /\ last_uid' = <<>>
    /\ UNCHANGED <<nfc_pc, nfcCall, nfcUid>>

\* The cycle calls show_error(message) and goes on to disconnect and sleep.
CycleReports(message) ==
    /\ uiQueue' = Append(uiQueue, show_error(message))
    /\ UNCHANGED <<nfc_pc, last_uid, nfcCall, nfcUid>>

\* mutant: the comparison of uid_str with last_uid is missing
OnTransmit_NoDebounce(tx) ==
    IF ~tx.ok THEN CycleReports(<<"Failed to read card">>)
    ELSE LET response == tx.bytes
             n == Len(response)
         IN
         IF n >= 2 /\ response[n - 1] = 144 /\ response[n] = 0 THEN
             LET uid == DropLast(response, 2) IN
             IF Len(uid) \in valid_uid_lengths THEN
                 LET uid_str == UidStr(uid) IN
                 /\ last_uid' = uid_str
                 /\ nfcUid' = uid_str
                 /\ nfcCall' = BeginCall("post_guests", CallMaxRetries)
                 /\ nfc_pc' = "guests"
                 /\ UNCHANGED uiQueue
             ELSE CycleReports(<<"Invalid UID length">>)
         ELSE IF n >= 2 THEN CycleReports(<<"Invalid response">>)
         ELSE
             /\ nfc_pc' = "panicked"
             /\ UNCHANGED <<last_uid, nfcCall, nfcUid, uiQueue>>

\* Lines 597-661: what the cycle does with the result of card.transmit.
OnTransmit(tx) ==
    IF ~tx.ok THEN CycleReports(<<"Failed to read card">>)
    ELSE LET response == tx.bytes
             n == Len(response)
         IN
         IF n >= 2 /\ response[n - 1] = 144 /\ response[n] = 0 THEN
             LET uid == DropLast(response, 2) IN
             IF Len(uid) \in valid_uid_lengths THEN
                 LET uid_str == UidStr(uid) IN
                 IF uid_str # last_uid THEN
                     /\ last_uid' = uid_str
                     /\ nfcUid' = uid_str
                     /\ nfcCall' = BeginCall("post_guests", CallMaxRetries)
                     /\ nfc_pc' = "guests"
                     /\ UNCHANGED uiQueue
                 ELSE
                     UNCHANGED <<nfc_pc, last_uid, nfcCall, nfcUid, uiQueue>>
             ELSE CycleReports(<<"Invalid UID length">>)
         ELSE IF n >= 2 THEN CycleReports(<<"Invalid response">>)
         ELSE \* response[response.len() - 2]: the index underflows, the thread panics
             /\ nfc_pc' = "panicked"
             /\ UNCHANGED <<last_uid, nfcCall, nfcUid, uiQueue>>

\* mutant: the closure is queued on every no-card cycle
OnNoSmartcard_Always ==
    /\ last_uid' = <<>>
    /\ uiQueue' = Append(uiQueue, EmptyClosure)
    /\ UNCHANGED <<nfc_pc, nfcCall, nfcUid>>

\* Lines 666-676: Err(Error::NoSmartcard).
OnNoSmartcard ==
    /\ IF last_uid # <<>>
       THEN /\ last_uid' = <<>>
            /\ uiQueue' = Append(uiQueue, EmptyClosure)
       ELSE UNCHANGED <<last_uid, uiQueue>>
    /\ UNCHANGED <<nfc_pc, nfcCall, nfcUid>>

\* One turn of the loop of lines 589-682, up to the call of post_guests.
NfcPoll(bound) ==
    /\ nfc_pc = "poll"
    /\ cycle.n < bound
    /\ \E connect \in {"Ok", "NoSmartcard", "Other"} :
          \E tx \in IF connect = "Ok" THEN Transmits ELSE {[ok |-> FALSE]} :
              /\ CASE connect = "Ok" -> OnTransmit(tx)
                   [] connect = "NoSmartcard" -> OnNoSmartcard
                   [] OTHER -> CycleReports(<<"Connect error">>)
              /\ Observed(connect, tx)
    /\ UNCHANGED <<acr122u, uiVars, logVars, startup, harnessVars>>
    /\ Len(uiQueue') <= MaxQueue

\* mutant: the field update is queued before the error message
GuestsClosures_UpdateFirst(guests) ==
    IF guests # <<>> THEN
        LET username == guests[1].name
            tag == IF guests[1].tag.some THEN guests[1].tag.v ELSE <<>>
        IN IF tag = <<>>
           THEN <<ScanUpdate(username, tag), show_error(<<"Guest tag is missing in response">>)>>
           ELSE <<ScanUpdate(username, tag)>>
    ELSE <<ScanUpdate(<<>>, <<>>), show_error(<<"No guests found in response">>)>>

\* Lines 620-645: the scan flow after post_guests returned Ok(response).
GuestsClosures(guests) ==
    IF guests # <<>> THEN
        LET username == guests[1].name
            tag == IF guests[1].tag.some THEN guests[1].tag.v ELSE <<>>
        IN IF tag = <<>>
           THEN <<show_error(<<"Guest tag is missing in response">>), ScanUpdate(username, tag)>>
           ELSE <<ScanUpdate(username, tag)>>
    ELSE <<show_error(<<"No guests found in response">>), ScanUpdate(<<>>, <<>>)>>

\* The tags of a decoded GuestsPostResponse.
TagsOf(guests) == {guests[i].tag.v : i \in {j \in 1..Len(guests) : guests[j].tag.some}}

\* What the scan flow got from a post_guests call that returned.
ScanResult(result) ==
    IF result.ok THEN [ok |-> TRUE, guests |-> result.val.guests] ELSE [ok |-> FALSE]

\* Lines 612-645: one attempt of post_guests(uid_str, 3) in the scan flow and,
\* when the call returns, the rest of the cycle.
NfcGuestsAttempt ==
    /\ nfc_pc = "guests"
    /\ \E out \in KioskOutcomes :
          LET call == post_guests(nfcCall, out) IN
          /\ nfcLog' = IF nfcCall.sent = 0
                       THEN Append(nfcLog, Request("nfc", "post_guests", nfcUid, 0, <<>>))
                       ELSE nfcLog
          /\ IF ~call.done THEN
                 /\ nfcCall' = call
                 /\ UNCHANGED <<nfc_pc, uiQueue, nfcUid, scan>>
             ELSE IF call.result.ok THEN
                 /\ uiQueue' = uiQueue \o GuestsClosures(call.result.val.guests)
                 /\ nfcCall' = NoCall
                 /\ nfc_pc' = "poll"
                 /\ nfcUid' = <<>>
                 /\ scan' = [last |-> ScanResult(call.result),
                             queued |-> SubSeq(uiQueue', Len(uiQueue) + 1, Len(uiQueue')),
                             tags |-> scan.tags \cup TagsOf(call.result.val.guests)]
             ELSE
                 /\ uiQueue' = Append(uiQueue,
                       show_error(<<"Failed to fetch guests: ">> \o ErrDisplay(call.result)))
                 /\ nfcCall' = NoCall
                 /\ nfc_pc' = "returned"
                 /\ nfcUid' = <<>>
                 /\ scan' = [scan EXCEPT
                               !.last = ScanResult(call.result),
                               !.queued = SubSeq(uiQueue', Len(uiQueue) + 1, Len(uiQueue'))]
    /\ UNCHANGED <<acr122u, last_uid, cycle, runs, uiVars, uiLog, submits, flow, startup,
                   harnessVars>>
    /\ Len(uiQueue') <= MaxQueue

\* ---- UI thread

\* mutant: the event loop enters a callback while another one is running
HandlerFree_Always == TRUE

\* The event loop (ui.run(), line 686) is single-threaded: it dispatches an
\* event or a queued closure only when no callback is running.
HandlerFree == ui_pc = "idle"

\* The history of a step of the submit handler (reads the new state): how the
\* call named by field returned, what the step queued and whether it wrote a
\* UI property, and whether the handler returned.
FlowStep(field, call) ==
    flow' = [flow EXCEPT
               ![field] = IF call.done THEN (IF call.result.ok THEN "ok" ELSE "err") ELSE @,
               !.queued = @ \o SubSeq(uiQueue', Len(uiQueue) + 1, Len(uiQueue')),
               !.touched = @ \/ <<card_uid', user_name', current_screen'>>
                                   # <<card_uid, user_name, current_screen>>,
               !.finished = IF ui_pc' = "idle" THEN @ + 1 ELSE @]

\* The modes the user can have selected, and the scores the user can type.
TriviaNames == {<<"TRIVIA 1">>, <<"TRIVIA 2">>, <<"TRIVIA 3">>, <<>>}
SubmitScores == {<<>>, <<"5">>, <<"a">>}

\* The user selects a mode on the UI (the UI sets trivia_name); left out once
\* no further submit request can read it.
UiSelectMode ==
    /\ HandlerFree
    /\ cycle.n + submits < MaxEvents
    /\ \E name \in TriviaNames : trivia_name' = name /\ name # trivia_name
    /\ UNCHANGED <<nfcVars, ui_pc, uiCall, card_uid, user_name, current_screen, submit,
                   uiQueue, logVars, histVars, harnessVars>>

\* The event loop runs the next closure queued by invoke_from_event_loop.
UiRunClosure ==
    /\ HandlerFree
    /\ uiQueue # <<>>
    /\ LET f == Head(uiQueue) IN
       CASE f.op = "set_card_uid" ->
              /\ card_uid' = f.text
              /\ UNCHANGED <<user_name, current_screen>>
         [] f.op = "scan_update" ->
              /\ user_name' = f.username
              /\ current_screen' = <<"welcome">>
              /\ card_uid' = f.tag
         [] OTHER -> UNCHANGED <<card_uid, user_name, current_screen>>
    /\ uiQueue' = Tail(uiQueue)
    /\ UNCHANGED <<nfcVars, ui_pc, uiCall, trivia_name, submit, logVars, histVars,
                   harnessVars>>

\* Lines 484-493: the submit_score callback is entered with the typed score.
UiSubmit ==
    /\ HandlerFree
    /\ cycle.n + submits < MaxEvents
    /\ \E score \in SubmitScores :
          submit' = [NoSubmit EXCEPT !.score = score]
    /\ uiCall' = BeginCall("post_get_by_slug", CallMaxRetries)
    /\ ui_pc' = "get_by_slug"
    /\ uiLog' = <<>>
    /\ submits' = submits + 1
    /\ flow' = [NoFlow EXCEPT !.mode = trivia_name, !.finished = flow.finished,
                              !.card = card_uid,
                              !.prior = IF submits = 0 THEN "none"
                                        ELSE IF flow.score = "ok" THEN "ok" ELSE "err"]
    /\ UNCHANGED <<nfcVars, card_uid, user_name, current_screen, trivia_name,
                   uiQueue, nfcLog, scan, startup, harnessVars>>

\* mutant: the two checkpoint ids change places
CheckpointIdText_Swapped(name) ==
    CASE name = <<"TRIVIA 1">> -> <<"6", "3">>
      [] name = <<"TRIVIA 2">> -> <<"6", "2">>
      [] OTHER -> <<>>

\* Lines 517-524: the mapping of the mode name to the checkpoint id text.
CheckpointIdText(name) ==
    CASE name = <<"TRIVIA 1">> -> <<"6", "2">>
      [] name = <<"TRIVIA 2">> -> <<"6", "3">>
      [] OTHER -> <<>>

\* mutant: the Err arm of the lookup is not taken
LookupFailed_Never(call) == FALSE

\* Lines 493-499: post_get_by_slug returned Err(e).
LookupFailed(call) == ~call.result.ok

\* Lines 493-534: one attempt of post_get_by_slug and, when the call returns,
\* the handler up to the call of post_load_score.
UiSlugAttempt ==
    /\ ui_pc = "get_by_slug"
    /\ UNCHANGED <<nfcVars, card_uid, user_name, current_screen, trivia_name,
                   nfcLog, submits, scan, startup, harnessVars>>
    /\ \E out \in KioskOutcomes :
          LET call == post_get_by_slug(uiCall, out) IN
          /\ uiLog' = IF uiCall.sent = 0
                      THEN Append(uiLog, Request("ui", "post_get_by_slug", <<>>, 0, <<>>))
                      ELSE uiLog
          /\ IF ~call.done THEN
                 /\ uiCall' = call
                 /\ UNCHANGED <<ui_pc, uiQueue, submit>>
             ELSE IF LookupFailed(call) THEN
                 /\ uiQueue' = Append(uiQueue,
                       show_error(<<"Failed to fetch checkpoint: ">> \o ErrDisplay(call.result)))
                 /\ uiCall' = NoCall
                 /\ ui_pc' = "idle"
                 /\ submit' = NoSubmit
             ELSE
                 LET gettag == card_uid
                     checkpoint_id == CheckpointIdText(trivia_name)
                 IN
                 IF checkpoint_id = <<>> THEN
                     /\ uiQueue' = Append(uiQueue, show_error(<<"Invalid trivia name">>))
                     /\ uiCall' = NoCall
                     /\ ui_pc' = "idle"
                     /\ submit' = NoSubmit
                 ELSE IF ~ParseI32(checkpoint_id).ok THEN
                     /\ uiQueue' = Append(uiQueue,
                           show_error(<<"Checkpoint ID must be a valid integer">>))
                     /\ uiCall' = NoCall
                     /\ ui_pc' = "idle"
                     /\ submit' = NoSubmit
                 ELSE
                     /\ submit' = [submit EXCEPT !.gettag = gettag,
                                                 !.checkpoint_id = ParseI32(checkpoint_id).v]
                     /\ uiCall' = BeginCall("post_load_score", CallMaxRetries)
                     /\ ui_pc' = "load_score"
                     /\ UNCHANGED uiQueue
          /\ FlowStep("lookup", call)
    /\ Len(uiQueue') <= MaxQueue

\* Lines 536-555: one attempt of post_load_score and, when the call returns,
\* the end of the handler.
UiLoadAttempt ==
    /\ ui_pc = "load_score"
    /\ UNCHANGED <<nfcVars, card_uid, user_name, current_screen, trivia_name,
                   nfcLog, submits, scan, startup, harnessVars>>
    /\ \E out \in KioskOutcomes :
          LET call == post_load_score(uiCall, out) IN
          /\ uiLog' = IF uiCall.sent = 0
                      THEN Append(uiLog, Request("ui", "post_load_score", submit.gettag,
                                                 submit.checkpoint_id, submit.score))
                      ELSE uiLog
          /\ IF ~call.done THEN
                 /\ uiCall' = call
                 /\ UNCHANGED <<ui_pc, uiQueue, submit>>
             ELSE IF call.result.ok THEN
                 /\ uiCall' = NoCall
                 /\ ui_pc' = "idle"
                 /\ submit' = NoSubmit
                 /\ UNCHANGED uiQueue
             ELSE
                 /\ uiQueue' = Append(uiQueue,
                       show_error(<<"Failed to load score: ">> \o ErrDisplay(call.result)))
                 /\ uiCall' = NoCall
                 /\ ui_pc' = "idle"
                 /\ submit' = NoSubmit
          /\ FlowStep("score", call)
    /\ Len(uiQueue') <= MaxQueue

Next ==
    \/ NfcStartup
    \/ NfcPoll(MaxEvents - submits)
    \/ NfcGuestsAttempt
    \/ UiSelectMode
    \/ UiRunClosure
    \/ UiSubmit
    \/ UiSlugAttempt
    \/ UiLoadAttempt

Spec == Init /\ [][Next]_vars

\* The poller alone: the NFC thread and the event loop, no submit request.
NextPoller ==
    \/ NfcStartup
    \/ NfcPoll(MaxCycles)
    \/ NfcGuestsAttempt
    \/ UiRunClosure

SpecPoller == Init /\ [][NextPoller]_vars

\* The poller with the event loop of ui.run() at work: a closure passed to
\* invoke_from_event_loop is run in the end.
SpecPollerLive == SpecPoller /\ WF_vars(UiRunClosure)

\* ------------------------------------------------------- claims C1 - C4, C10

CardA == <<"0", "4", "A", "1", "B", "2", "C", "3">>

\* C1: a poll cycle that reads a valid UID equal to the stored last_uid calls
\* post_guests not, queues no closure and leaves last_uid alone; and over the
\* valid reads of one card with no no-card cycle and no other card in between
\* post_guests is called at most once.
C1_DebouncePresence ==
    /\ (cycle.in = "card" /\ cycle.uid = cycle.before) =>
          (~cycle.called /\ cycle.queued = <<>> /\ cycle.after = cycle.before)
    /\ nfc_pc = "guests" => cycle.called
    /\ runs.presents <= 1

C1_Witness ==
    /\ cycle.n = 3 /\ cycle.in = "card" /\ cycle.uid = cycle.before
    /\ runs.card = CardA /\ runs.presents = 1
    /\ Len(nfcLog) = 1 /\ nfcLog[1].guest_tag = CardA

\* C2: a no-card cycle that finds a UID stored clears it and queues exactly
\* one (removal) closure, one that finds none stored queues nothing; and a run
\* of consecutive no-card cycles has queued one removal closure when a card
\* was read before the run and none otherwise, from its first cycle on.
C2_DebounceRemoval ==
    /\ cycle.in = "no_card" =>
          /\ cycle.after = <<>>
          /\ cycle.queued = IF cycle.before # <<>> THEN <<EmptyClosure>> ELSE <<>>
    /\ runs.gone >= 1 => runs.absents = IF runs.after_card THEN 1 ELSE 0

C2_Witness ==
    /\ runs.gone = 2 /\ runs.after_card /\ runs.absents = 1
    /\ cycle.in = "no_card" /\ cycle.before = <<>> /\ cycle.queued = <<>>

\* C3: once a reader has been selected the NFC thread never leaves its poll
\* loop: whatever fails inside a cycle, the registerGuest call of the scan
\* flow included, the thread goes on to a later cycle.
C3_PollLoopNeverReturns ==
    acr122u # <<>> => nfc_pc # "returned"

\* C4: a cycle that meets a transmit failure, a response of fewer than 2
\* bytes, a response not ending in 90 00 or a payload of a length outside
\* {4, 7, 10} reports one error and the thread stays in its poll loop.
C4_ProtocolErrorsRecoverable ==
    cycle.in \in {"transmit_failed", "short_response", "bad_trailer", "bad_length"} =>
        /\ cycle.alive
        /\ Len(cycle.queued) = 1
        /\ cycle.queued[1].op = "set_card_uid"
        /\ cycle.after = cycle.before

\* C10: while the submit handler runs on a score that is empty or no integer,
\* or on an empty card_uid, it has issued no request.
C10_ValidatedBeforeNetwork ==
    (ui_pc # "idle" /\ (~IsI32Text(submit.score) \/ card_uid = <<>>)) => uiLog = <<>>

\* ------------------------------------------------------------ claims C11 - C20

\* The submit handler has returned from the flow that flow describes.
FlowOver == submits >= 1 /\ ui_pc = "idle"
PostScores == {i \in 1..Len(uiLog) : uiLog[i].fn = "post_load_score"}

\* C11: when a submit flow is over whose lookup succeeded and whose postScore
\* returned Ok (a 200 or the 409 sentinel), the handler has updated the
\* presentation surface: it queued a closure for the event loop or wrote a
\* UI property itself.
C11_SuccessConfirmed ==
    (FlowOver /\ flow.lookup = "ok" /\ flow.score = "ok") =>
        (flow.queued # <<>> \/ flow.touched)

\* The first guests with a tag that a registerGuest response can carry.
TaggedGuests ==
    {GuestsOf(b)[1] : b \in {c \in Bodies : /\ GuestsOf(c) # <<>>
                                             /\ GuestsOf(c)[1].tag.some
                                             /\ GuestsOf(c)[1].tag.v # <<>>}}

\* post_guests of the scan flow has just returned Ok with g as first guest.
ScanGot(g) ==
    /\ scan.last # NotCalled
    /\ scan.last.ok
    /\ scan.last.guests # <<>>
    /\ scan.last.guests[1] = g

\* C12: whenever the scan flow of a newly read UID got from registerGuest a
\* first guest with a tag, the UI comes to show that guest's name as user
\* name, that guest's tag as card UID and a screen selection.
C12_ScanSuccess ==
    \A g \in TaggedGuests :
        ScanGot(g) ~> (/\ user_name = g.name
                       /\ card_uid = g.tag.v
                       /\ current_screen # <<>>)

C12_Witness ==
    /\ scan.tags = {<<"g-123">>}
    /\ Len(nfcLog) = 1 /\ nfcLog[1].guest_tag = CardA
    /\ uiQueue = <<>>
    /\ user_name = <<"Alice">> /\ card_uid = <<"g-123">> /\ current_screen = <<"welcome">>

\* The modes the handler maps to a checkpoint id.
MappedModes == {<<"TRIVIA 1">>, <<"TRIVIA 2">>}

\* The flow met an error: its lookup failed, its mode maps to no checkpoint
\* after the lookup succeeded, or its postScore failed.
FlowFailed ==
    /\ submits >= 1
    /\ \/ flow.lookup = "err"
       \/ flow.lookup = "ok" /\ flow.mode \notin MappedModes
       \/ flow.score = "err"

\* C13: a submit flow that met an error has returned at once, so that the
\* event loop can enter the handler again: the request that failed is the
\* last one of the flow (no postScore after a failed lookup or an unmapped
\* mode), and exactly one error closure was queued for the UI; and no step of
\* the handler changes the state of the NFC thread.
C13_SubmitErrorAborts ==
    /\ [](FlowFailed =>
            /\ ui_pc = "idle"
            /\ Len(uiLog) = (IF flow.score = "err" THEN 2 ELSE 1)
            /\ (flow.score # "err") => PostScores = {}
            /\ Len(flow.queued) = 1
            /\ flow.queued[1].op = "set_card_uid"
            /\ ~flow.touched)
    /\ [][(uiLog' # uiLog \/ ui_pc' # ui_pc) =>
             UNCHANGED <<nfc_pc, acr122u, last_uid, nfcCall, nfcUid>>]_vars

C13_Witness ==
    /\ flow.prior = "err"
    /\ FlowFailed /\ flow.score = "err" /\ flow.finished = 2
    /\ Len(uiLog) = 2 /\ Len(flow.queued) = 1

\* The closure show_error queued for a failed post_guests of the scan flow.
IsGuestsError(f) ==
    /\ f.op = "set_card_uid"
    /\ Len(f.text) >= 2
    /\ f.text[2] = "Failed to fetch guests: "

\* C14: when the event loop runs the closure that reports a failed
\* registerGuest of the scan flow, the selection in effect (user name, card
\* UID used as guest tag for scoring, screen selection) stays as it was.
C14_FailureKeepsSelection ==
    [][(/\ uiQueue # <<>>
        /\ IsGuestsError(Head(uiQueue))
        /\ uiQueue' = Tail(uiQueue))
          => UNCHANGED <<user_name, card_uid, current_screen>>]_vars

\* C15: the number of submit flows begun and not yet returned is 1 while the
\* handler runs and 0 otherwise, so no two flows are in progress together;
\* and a step of the NFC thread taken while the handler runs (a poll cycle,
\* the scan flow's request) leaves the handler's position, call and locals
\* and the UI properties as they are.
C15_OneSubmitAtATime ==
    /\ [](submits - flow.finished = (IF ui_pc = "idle" THEN 0 ELSE 1))
    /\ [][(ui_pc # "idle" /\ <<nfc_pc, nfcCall, last_uid, cycle>>' # <<nfc_pc, nfcCall, last_uid, cycle>>)
             => UNCHANGED <<uiVars, uiLog>>]_vars

C15_Witness ==
    /\ FlowOver /\ flow.scanned /\ flow.score = "ok"
    /\ cycle.in = "card" /\ last_uid = CardA
    /\ Len(uiLog) = 2

\* The positions of the enumerated readers whose name holds the substring.
Matches == {i \in 1..Len(startup.readers) : Contains(startup.readers[i], ReaderNameFragment)}

\* The startup could not establish the context, list the readers or find a
\* matching reader.
StartupFailed ==
    /\ startup.done
    /\ (~startup.established \/ ~startup.listed \/ Matches = {})

\* C16: after a startup that enumerated a matching reader the reader selected
\* is the first matching one; after a startup that failed exactly one error
\* closure was queued by it, no reader is selected, the thread has returned
\* and no poll cycle is ever begun.
C16_Startup ==
    /\ (startup.done /\ ~StartupFailed) =>
          \E i \in Matches : /\ \A j \in Matches : i <= j
                              /\ acr122u = startup.readers[i]
    /\ StartupFailed =>
          /\ Len(startup.queued) = 1
          /\ startup.queued[1].op = "set_card_uid"
          /\ acr122u = <<>>
          /\ nfc_pc = "returned"
          /\ cycle.n = 0

C16_Witness ==
    /\ StartupFailed /\ startup.listed /\ Len(startup.readers) = 1
    /\ cycle.n = 0
    /\ FlowOver /\ flow.score = "ok" /\ flow.finished = 2

\* C17: the first request of a submit flow is the lookup, and each postScore
\* request of the flow comes after a registerGuest request of the same flow
\* for the same guest tag.
C17_RegisterBeforeScore ==
    /\ uiLog # <<>> => uiLog[1].fn = "post_get_by_slug"
    /\ \A i \in PostScores :
          \E j \in 1..(i - 1) : /\ uiLog[j].fn = "post_guests"
                                 /\ uiLog[j].guest_tag = uiLog[i].guest_tag

\* C18: last_uid changes only in a poll cycle, and only in two ways: the
\* cycle read a UID of valid length with trailer 90 00 that differs from the
\* stored one and stores it, or the cycle met no card while a UID was stored
\* and clears it. A cycle that meets an invalid length, a bad trailer, a
\* transmit failure or another connect error leaves it as it is.
C18_ScanStateFrame ==
    [][last_uid' # last_uid =>
         /\ cycle'.n = cycle.n + 1
         /\ \/ cycle'.in = "card" /\ cycle'.uid # last_uid /\ last_uid' = cycle'.uid
            \/ cycle'.in = "no_card" /\ last_uid # <<>> /\ last_uid' = <<>>]_vars

C18_Witness ==
    /\ cycle.in \in {"bad_length", "bad_trailer", "transmit_failed", "connect_error"}
    /\ cycle.before = CardA /\ last_uid = CardA
    /\ Len(cycle.queued) = 1

\* C19: the guest_tag of each postScore request of a submit flow is a tag
\* that a successful registerGuest of the scan flow returned (so neither the
\* empty string nor an error text shown in the card-UID field).
C19_ServerConfirmedTag ==
    \A i \in PostScores : uiLog[i].guest_tag \in scan.tags

\* C20: each postScore request of a submit flow targets checkpoint 62 when
\* the mode selected is "TRIVIA 1" and 63 when it is "TRIVIA 2"; a flow with
\* any other mode (the empty name included) issues no postScore request and,
\* once over, has queued exactly one error closure.
C20_ModeMapping ==
    /\ \A i \in PostScores :
          /\ flow.mode \in MappedModes
          /\ uiLog[i].checkpoint_id = (IF flow.mode = <<"TRIVIA 1">> THEN 62 ELSE 63)
    /\ (FlowOver /\ flow.mode \notin MappedModes) =>
          /\ PostScores = {}
          /\ Len(flow.queued) = 1
          /\ flow.queued[1].op = "set_card_uid"

C20_Witness ==
    /\ FlowOver /\ flow.mode = <<"TRIVIA 2">>
    /\ Len(uiLog) = 2 /\ uiLog[2].checkpoint_id = 63
    /\ flow.prior = "err"

\* ------------------------------------------------------------ claims C21 - C24

\* C21: a request function called with max_retries >= 1 makes at most
\* max_retries attempts, has returned when it made max_retries and not before
\* it made one, slept once after each attempt but the one it returned from,
\* and never returns the status-0 error "Max retries reached"; called with
\* max_retries = 0 it returns that error without any attempt or sleep.
C21_BoundedRetry ==
    /\ rq.sent = Len(rqLog)
    /\ rq.max >= 1 =>
          /\ rq.sent <= rq.max
          /\ rq.sent = rq.max => rq.done
          /\ rq.done => rq.sent >= 1
          /\ Len(rq.sleeps) = (IF rq.done THEN rq.sent - 1 ELSE rq.sent)
          /\ rq.done => rq.result # MaxRetriesReached
    /\ rq.max = 0 =>
          /\ rq.done
          /\ rq.sent = 0
          /\ rq.sleeps = <<>>
          /\ rq.result = MaxRetriesReached

C21_Witness ==
    /\ rq.done /\ rq.max = 3 /\ rq.sent = 2 /\ rq.fn = "post_load_score"
    /\ IsTransport(rqLog[1])
    /\ IsResp(rqLog[2]) /\ rqLog[2].status \in OtherStatuses
    /\ Len(rq.sleeps) = 1

\* post_guests of the scan flow has just returned Ok with no guest or with a
\* first guest that has no tag.
ScanDegenerate ==
    /\ scan.last # NotCalled
    /\ scan.last.ok
    /\ \/ scan.last.guests = <<>>
       \/ ~scan.last.guests[1].tag.some
       \/ scan.last.guests[1].tag.v = <<>>

ReturnedName == IF scan.last.guests = <<>> THEN <<>> ELSE scan.last.guests[1].name

\* C23: on a registerGuest success without guest or without tag the scan flow
\* queues the error message first and its field update second; and once the
\* event loop has applied everything queued, card_uid is empty (the error
\* text is overwritten), user_name is the returned name (or empty) and the
\* screen is "welcome".
C23_DegenerateOrder ==
    ScanDegenerate =>
        /\ Len(scan.queued) = 2
        /\ scan.queued[1].op = "set_card_uid"
        /\ scan.queued[2].op = "scan_update"
        /\ uiQueue = <<>> =>
              /\ card_uid = <<>>
              /\ user_name = ReturnedName
              /\ current_screen = <<"welcome">>

C23_Witness ==
    /\ ScanDegenerate /\ uiQueue = <<>>
    /\ scan.last.guests # <<>> /\ user_name = <<"Bob">>
    /\ card_uid = <<>> /\ current_screen = <<"welcome">>

\* C22: while the submit handler runs, the card_uid and trivia_name fields
\* hold what they held when the handler was entered, whatever the poller
\* reads or reports meanwhile, and the guest tag the handler has read after
\* the lookup and sends with postScore is that card_uid.
C22_SubmitSnapshot ==
    /\ ui_pc # "idle" => (card_uid = flow.card /\ trivia_name = flow.mode)
    /\ ui_pc = "load_score" => submit.gettag = flow.card
    /\ \A i \in PostScores : uiLog[i].guest_tag = flow.card

C22_Witness ==
    /\ FlowOver /\ flow.scanned /\ flow.card = <<>>
    /\ Len(uiLog) = 2 /\ uiLog[2].guest_tag = <<>>
    /\ scan.tags = {<<"g-123">>} /\ card_uid = <<"g-123">>

\* The body decodes into the typed response of the function: PostResponse
\* needs the checkpoint object, GuestsPostResponse the guests list, the other
\* two take any JSON object.
Decodes(fn, body) ==
    CASE fn = "post_get_by_slug" -> body = "checkpoint"
      [] fn = "post_guests" -> body \in {"guests0", "guestsNoTag", "guestsAlice"}
      [] OTHER -> body \notin {"unreadable", "garbage"}

\* A 200 response whose body the function cannot read or decode.
IsBad200(out) == IsResp(out) /\ out.status = STATUS_OK /\ ~Decodes(rq.fn, out.body)

\* C24: an attempt that received a 200 with a body that cannot be read or
\* decoded is the last attempt of the call, whatever max_retries is: the call
\* has returned an Http or Json error (no ApiError) and slept only after the
\* attempts before this one.
C24_Bad200NotRetried ==
    \A i \in 1..Len(rqLog) :
        IsBad200(rqLog[i]) =>
            /\ i = Len(rqLog)
            /\ rq.sent = i
            /\ rq.done
            /\ ~rq.result.ok
            /\ rq.result.err \in {"Http", "Json"}
            /\ Len(rq.sleeps) = i - 1

C24_Witness ==
    /\ rq.fn = "post_guests" /\ rq.max = 3 /\ Len(rqLog) = 2
    /\ IsRetryStatus(rqLog[1])
    /\ IsBad200(rqLog[2]) /\ rqLog[2].body = "checkpoint"
    /\ rq.done /\ rq.result = JsonError /\ rq.sleeps = <<2>>

====
